---- MODULE Spec2Model ----
(***************************************************************************)
(* Gesture pipeline of unitree_sdk2_python:                                *)
(*   - utils/gesture_dispatcher.py  GestureDispatcher (cooldown debounce)  *)
(*   - modules/gesture.py           GestureRecognizer (shared gesture dict)*)
(*   - 01_gesture.py                main loop reading the shared dict      *)
(* Time is counted in whole seconds for the dispatcher (cooldown = 2.0 s)  *)
(* and in whole milliseconds for the recognizer timestamps.                *)
(***************************************************************************)
EXTENDS Integers, Sequences, FiniteSets, TLC

\* ------------------------------------------------------------------------
\* Bounds of the model
\* ------------------------------------------------------------------------
MaxTime == 4        \* the real-time clock runs 0..MaxTime
MaxSkew == 1        \* a wall-clock reading lags real time by 0..MaxSkew

\* ------------------------------------------------------------------------
\* Program constants
\* ------------------------------------------------------------------------
cooldown == 2       \* GestureDispatcher.__init__(cooldown: float = 2.0)

\* two threads call GestureDispatcher.process concurrently
Threads == {"t1", "t2"}

\* build_gesture_actions: gesture id -> SportClient method
gesture_actions == (5 :> "StandUp") @@ (6 :> "StandDown") @@ (4 :> "Hello")

\* gesture ids handed to process(); 0 has no bound action
GestureInputs == {0, 5, 6}

VARIABLES
    clock,       \* real time (monotonic)
    pc,          \* dispatcher: position of each thread inside process()
    gesture,     \* dispatcher: argument of the call in progress
    now,         \* dispatcher: local `now` of the call in progress
    lock,        \* dispatcher: self._lock, the set of its holders
    last_run,    \* dispatcher: self._last_run, gesture -> last accepted `now`
    accepted,    \* history: bag of the accepted calls [gesture, now]
    launches,    \* history: bag of the action threads started [gesture, now]
    last_launch, \* history: gesture -> real time of its latest thread start
    running,     \* action threads alive, per gesture
    event,       \* history: the latest return of a call or end of an action
    flip_results,       \* recognizer: self.flip_results
    hand_gestures_dict, \* recognizer: self.hand_gestures_dict
    gr_lock,            \* recognizer: self.lock, the set of its holders
    timestamp,          \* recognizer: self.timestamp (ms)
    last_sent,          \* classifier: latest timestamp it took, -1 before any
    inflight,           \* classifier: results owed to results_callback
    cb_pc,              \* callback context: position in results_callback
    result,             \* callback context: argument `result`
    index,              \* callback context: loop index over result.handedness
    m_pc,               \* main loop of 01_gesture.py: position
    code,               \* main loop: code of the last GetImageSample()
    left_g,             \* main loop: local left_g
    right_g,            \* main loop: local right_g
    due,                \* main loop: current_time - last_time >= delay
    started,            \* history: gestures whose thread the last cycle started
    seen,               \* history: values of the dict since detect_gesture returned
    zero_hand_pass,     \* history: the detection pass of this cycle found no hand
    cb_printed,         \* callback context: lines it has printed in this call
    a_pc,               \* main loop of app.py: position
    hands_left,         \* app.py: hands of the current frame still to process
    point_history,      \* app.py: point_history
    finger_gesture_history, \* app.py: finger_gesture_history
    most_common_fg_id,  \* app.py: most_common_fg_id
    classifier_called,  \* history: the last hand called point_history_classifier
    sport_call,         \* history: SportClient method the last hand called
    hand_sign_id        \* app.py: hand_sign_id of the last hand (-1: none yet)

dvars == <<pc, gesture, now, lock, last_run, accepted, launches, last_launch,
           running, event>>
rvars == <<flip_results, hand_gestures_dict, gr_lock, timestamp, last_sent,
           inflight, cb_pc, result, index, m_pc, code, left_g, right_g, due,
           started, seen, zero_hand_pass,
           cb_printed>>
avars == <<a_pc, hands_left, point_history, finger_gesture_history,
           most_common_fg_id, classifier_called, sport_call,
                   hand_sign_id>>
vars == <<clock, dvars, rvars, avars>>

\* time.time(): the wall clock may lag real time (it is adjustable, not
\* monotonic), so successive readings can repeat or step backwards.
WallReadings == {r \in 0..MaxTime : r <= clock /\ clock - r <= MaxSkew}

\* ------------------------------------------------------------------------
\* GestureDispatcher
\* ------------------------------------------------------------------------
LookupDefaultAction(g) ==
    IF g \in DOMAIN gesture_actions THEN gesture_actions[g] ELSE "Hello"

\* self._gesture_actions.get(gesture)
Lookup(g) ==
    IF g \in DOMAIN gesture_actions THEN gesture_actions[g] ELSE "None"

LastShared(g) ==
    IF DOMAIN last_run = {} THEN 0
    ELSE CHOOSE m \in {last_run[k] : k \in DOMAIN last_run} :
            \A k \in DOMAIN last_run : last_run[k] <= m

\* self._last_run.get(gesture, 0.0)
Last(g) == IF g \in DOMAIN last_run THEN last_run[g] ELSE 0

InCooldownNever(n, last) == FALSE

InCooldownOrBusy(n, last) ==
    n - last < cooldown \/ \E k \in DOMAIN running : running[k] > 0

InCooldownEitherWay(n, last) ==
    (IF n >= last THEN n - last ELSE last - n) < cooldown

\* now - last < self._cooldown
InCooldown(n, last) == n - last < cooldown

HeldLockKept(t) == lock

\* leaving the `with self._lock:` block
Unlock(t) == lock \ {t}

LockFreeAlways == TRUE

\* threading.Lock: free when nobody holds it
LockFree == lock = {}

PutIfAbsent(g, n) ==
    IF g \in DOMAIN last_run THEN last_run ELSE g :> n @@ last_run

\* self._last_run[gesture] = now
Put(g, n) == [k \in DOMAIN last_run \cup {g} |->
                 IF k = g THEN n ELSE last_run[k]]

TableAfterFailureCleared(k) ==
    [x \in DOMAIN last_run \ {k} |-> last_run[x]]

\* an exception inside Thread(target=action) ends that thread only
TableAfterFailure(k) == last_run

\* one more occurrence of record r in bag b
BagAdd(b, r) ==
    [x \in DOMAIN b \cup {r} |->
        IF x \in DOMAIN b THEN (IF x = r THEN b[x] + 1 ELSE b[x]) ELSE 1]

Call(t) == [gesture |-> gesture[t], now |-> now[t]]

DInit ==
    /\ pc = [t \in Threads |-> "idle"]
    /\ gesture = [t \in Threads |-> 0]
    /\ now = [t \in Threads |-> 0]
    /\ lock = {}
    /\ last_run = <<>>
    /\ accepted = <<>>
    /\ launches = <<>>
    /\ last_launch = <<>>
    /\ running = [k \in DOMAIN gesture_actions |-> 0]
    /\ event = [kind |-> "none", gesture |-> 0]

\* process(), lines 20-24: look the action up, return when there is none,
\* else read the wall clock
ProcessLookup(t, g) ==
    /\ pc[t] = "idle"
    /\ IF Lookup(g) = "None"
       THEN /\ event' = [kind |-> "noaction", gesture |-> g]
            /\ UNCHANGED <<pc, gesture, now>>
       ELSE /\ pc' = [pc EXCEPT ![t] = "lock"]
            /\ gesture' = [gesture EXCEPT ![t] = g]
            /\ \E r \in WallReadings : now' = [now EXCEPT ![t] = r]
            /\ UNCHANGED event
    /\ UNCHANGED <<clock, lock, last_run, accepted, launches, last_launch,
                   running>>
    /\ UNCHANGED <<rvars, avars>>

\* line 25: with self._lock (acquire)
ProcessAcquire(t) ==
    /\ pc[t] = "lock"
    /\ LockFree
    /\ lock' = lock \cup {t}
    /\ pc' = [pc EXCEPT ![t] = "check"]
    /\ UNCHANGED <<clock, gesture, now, last_run, accepted, launches,
                   last_launch, running, event>>
    /\ UNCHANGED <<rvars, avars>>

\* lines 26-28: read the last run, return (releasing the lock) in cooldown
ProcessCheck(t) ==
    /\ pc[t] = "check"
    /\ IF InCooldown(now[t], Last(gesture[t]))
       THEN /\ lock' = Unlock(t)
            /\ pc' = [pc EXCEPT ![t] = "idle"]
            /\ gesture' = [gesture EXCEPT ![t] = 0]
            /\ now' = [now EXCEPT ![t] = 0]
            /\ event' = [kind |-> "cooldown", gesture |-> gesture[t]]
       ELSE /\ pc' = [pc EXCEPT ![t] = "update"]
            /\ UNCHANGED <<lock, gesture, now, event>>
    /\ UNCHANGED <<clock, last_run, accepted, launches, last_launch, running>>
    /\ UNCHANGED <<rvars, avars>>

\* line 29 and the end of the with block: record the run, release the lock
ProcessUpdate(t) ==
    /\ pc[t] = "update"
    /\ last_run' = Put(gesture[t], now[t])
    /\ accepted' = BagAdd(accepted, Call(t))
    /\ lock' = Unlock(t)
    /\ pc' = [pc EXCEPT ![t] = "start"]
    /\ UNCHANGED <<clock, gesture, now, launches, last_launch, running, event>>
    /\ UNCHANGED <<rvars, avars>>

LaunchedNothing(t) == launches

\* the threads started so far, after threading.Thread(target=action).start()
Launched(t) == BagAdd(launches, Call(t))

\* lines 30-31: threading.Thread(target=action, daemon=True).start(), return
ProcessStart(t) ==
    /\ pc[t] = "start"
    /\ launches' = Launched(t)
    /\ last_launch' = [k \in DOMAIN last_launch \cup {gesture[t]} |->
                          IF k = gesture[t] THEN clock ELSE last_launch[k]]
    /\ running' = [running EXCEPT ![gesture[t]] = @ + 1]
    /\ pc' = [pc EXCEPT ![t] = "idle"]
    /\ gesture' = [gesture EXCEPT ![t] = 0]
    /\ now' = [now EXCEPT ![t] = 0]
    /\ event' = [kind |-> "launched", gesture |-> gesture[t]]
    /\ UNCHANGED <<clock, lock, last_run, accepted>>
    /\ UNCHANGED <<rvars, avars>>

\* the action thread returns normally
ActionFinish(k) ==
    /\ running[k] > 0
    /\ running' = [running EXCEPT ![k] = @ - 1]
    /\ event' = [kind |-> "finished", gesture |-> k]
    /\ UNCHANGED <<clock, pc, gesture, now, lock, last_run, accepted,
                   launches, last_launch>>
    /\ UNCHANGED <<rvars, avars>>

\* the action thread ends by an exception (threading.excepthook reports it)
ActionFail(k) ==
    /\ running[k] > 0
    /\ running' = [running EXCEPT ![k] = @ - 1]
    /\ event' = [kind |-> "failed", gesture |-> k]
    /\ last_run' = TableAfterFailure(k)
    /\ UNCHANGED <<clock, pc, gesture, now, lock, accepted, launches,
                   last_launch>>
    /\ UNCHANGED <<rvars, avars>>

\* ------------------------------------------------------------------------
\* GestureRecognizer (modules/gesture.py) and the main loop of 01_gesture.py
\* In this part one unit of the clock is one millisecond.
\* ------------------------------------------------------------------------
MaxInflight == 2    \* results the classifier can owe at one time

\* A result of the classifier: per hand, handedness[i] and gestures[i] are the
\* category name of the first entry of the per-hand list, "" for an empty
\* per-hand list; gestures may be shorter than handedness. present = FALSE
\* is a missing result (None).
Results ==
    { [present |-> FALSE, handedness |-> <<>>, gestures |-> <<>>],
      [present |-> TRUE, handedness |-> <<"Left">>, gestures |-> <<"">>],
      [present |-> TRUE, handedness |-> <<"Left">>, gestures |-> <<"Thumb_Up">>],
      [present |-> TRUE, handedness |-> <<"Left", "Right">>,
                         gestures |-> <<"Thumb_Up", "Victory">>],
      [present |-> TRUE, handedness |-> <<"Right", "Left">>,
                         gestures |-> <<"Victory">>],
      [present |-> TRUE, handedness |-> <<"", "Right">>,
                         gestures |-> <<"", "Victory">>],
      [present |-> TRUE, handedness |-> <<"Left", "Right">>,
                         gestures |-> <<"Thumb_Up", "Thumb_Up">>] }

NoResult == [present |-> FALSE, handedness |-> <<>>, gestures |-> <<>>]

\* gesture_actions of 01_gesture.py (the labels the model's results can
\* carry): a bound method, or a string where the source binds a string
main_gesture_actions ==
    ("Thumb_Up" :> "StandUp") @@ ("Victory" :> "'None'")

EmptyResultOnlyMissing(r) == ~r.present

\* not result or not any(result.gestures)
EmptyResult(r) ==
    \/ ~r.present
    \/ \A i \in DOMAIN r.gestures : r.gestures[i] = ""

\* hand[0].category_name, "Unknown" when that raises
HandName(r, i) ==
    IF r.handedness[i] = "" THEN "Unknown" ELSE r.handedness[i]

GestureNameOrNone(r, i) ==
    IF i \in DOMAIN r.gestures /\ r.gestures[i] # ""
    THEN r.gestures[i] ELSE "None"

\* result.gestures[index][0].category_name, "Unknown" when that raises
GestureName(r, i) ==
    IF i \in DOMAIN r.gestures /\ r.gestures[i] # ""
    THEN r.gestures[i] ELSE "Unknown"

CorrectedIdentity(name) == name

\* corrected_hand_name
Corrected(name) ==
    IF flip_results THEN (IF name = "Left" THEN "Right" ELSE "Left")
    ELSE name

GrLockFreeAlways == TRUE

GrLockIgnoresMain == gr_lock \subseteq {"main"}

\* self.lock (threading.Lock): free when nobody holds it
GrLockFree == gr_lock = {}

DictPutFenced(d, key, value) ==
    IF zero_hand_pass THEN d
    ELSE [k \in DOMAIN d \cup {key} |-> IF k = key THEN value ELSE d[k]]

ReleasedNever(who) == gr_lock

\* the holders of self.lock after `who` leaves its with-block
Released(who) == gr_lock \ {who}

\* self.hand_gestures_dict[key] = value
DictPut(d, key, value) ==
    [k \in DOMAIN d \cup {key} |-> IF k = key THEN value ELSE d[k]]

\* current_gesture.get(key, "None")
DictGet(d, key) == IF key \in DOMAIN d THEN d[key] ELSE "None"

Pair(d) == <<DictGet(d, "Left"), DictGet(d, "Right")>>

\* the values the dict has held since detect_gesture returned to the caller
SeenAfterWrite(d) ==
    IF m_pc \in {"read_left", "read_right"} THEN seen \cup {Pair(d)} ELSE seen

RInit ==
    /\ flip_results \in BOOLEAN
    /\ hand_gestures_dict = [k \in {"Left", "Right"} |-> "None"]
    /\ gr_lock = {}
    /\ timestamp = 0
    /\ last_sent = -1
    /\ inflight = 0
    /\ cb_pc = "idle"
    /\ result = NoResult
    /\ index = 1
    /\ m_pc = "sample"
    /\ code = 0
    /\ left_g = "None"
    /\ right_g = "None"
    /\ due = FALSE
    /\ started = <<>>
    /\ seen = {}
    /\ zero_hand_pass = FALSE
    /\ cb_printed = 0

\* 01_gesture.py lines 50-65: while code == 0, GetImageSample, decode,
\* and inside detect_gesture lines 44-48 the landmark pass self.hands.process
MainSample ==
    /\ m_pc = "sample"
    /\ IF code # 0
       THEN /\ m_pc' = "ended"
            /\ UNCHANGED code
       ELSE \E f \in {"failure", "nodata", "undecodable", "hands", "nohands"} :
              /\ code' = IF f = "failure" THEN 1 ELSE 0
              /\ m_pc' = CASE f = "hands" -> "submit"
                           [] f = "nohands" -> "reset_lock"
                           [] OTHER -> "sample"
    /\ started' = <<>>
    /\ UNCHANGED <<clock, dvars, avars, cb_printed, zero_hand_pass, flip_results, hand_gestures_dict, gr_lock,
                   timestamp, last_sent, inflight, cb_pc, result, index,
                   left_g, right_g, due, seen>>

\* detect_gesture lines 54-55: self.timestamp = int(time.time() * 1000);
\* recognize_async(mp_image, self.timestamp). The classifier takes a
\* timestamp above its latest one (dropping the frame when it owes
\* MaxInflight results) and drops or raises on any other.
MainSubmit ==
    /\ m_pc = "submit"
    /\ \E r \in WallReadings :
         /\ timestamp' = r
         /\ IF r > last_sent
            THEN /\ last_sent' = r
                 /\ inflight' = IF inflight < MaxInflight
                                THEN inflight + 1 ELSE inflight
                 /\ m_pc' = "snap_lock"
            ELSE /\ UNCHANGED <<last_sent, inflight>>
                 /\ m_pc' \in {"snap_lock", "crashed"}
    /\ UNCHANGED <<clock, dvars, avars, cb_printed, zero_hand_pass, flip_results, hand_gestures_dict, gr_lock,
                   cb_pc, result, index, code, left_g, right_g, due, started,
                   seen>>

\* detect_gesture line 57: with self.lock (acquire)
MainSnapAcquire ==
    /\ m_pc = "snap_lock"
    /\ GrLockFree
    /\ gr_lock' = {"main"}
    /\ m_pc' = "snap"
    /\ UNCHANGED <<clock, dvars, avars, cb_printed, zero_hand_pass, flip_results, hand_gestures_dict, timestamp,
                   last_sent, inflight, cb_pc, result, index, code, left_g,
                   right_g, due, started, seen>>

\* detect_gesture lines 58-59 and 65: print the dict, release the lock,
\* return frame, self.hand_gestures_dict, results
MainSnapReturn ==
    /\ m_pc = "snap"
    /\ gr_lock' = Released("main")
    /\ m_pc' = "read_left"
    /\ seen' = {Pair(hand_gestures_dict)}
    /\ UNCHANGED <<clock, dvars, avars, cb_printed, zero_hand_pass, flip_results, hand_gestures_dict, timestamp,
                   last_sent, inflight, cb_pc, result, index, code, left_g,
                   right_g, due, started>>

\* detect_gesture line 61: with self.lock (acquire), when no hand was found
MainResetAcquire ==
    /\ m_pc = "reset_lock"
    /\ GrLockFree
    /\ gr_lock' = {"main"}
    /\ m_pc' = "reset_left"
    /\ UNCHANGED <<clock, dvars, avars, cb_printed, zero_hand_pass, flip_results, hand_gestures_dict, timestamp,
                   last_sent, inflight, cb_pc, result, index, code, left_g,
                   right_g, due, started, seen>>

\* detect_gesture line 62: self.hand_gestures_dict["Left"] = "None"
MainResetLeft ==
    /\ m_pc = "reset_left"
    /\ hand_gestures_dict' = DictPut(hand_gestures_dict, "Left", "None")
    /\ m_pc' = "reset_right"
    /\ UNCHANGED <<clock, dvars, avars, cb_printed, zero_hand_pass, flip_results, gr_lock, timestamp, last_sent,
                   inflight, cb_pc, result, index, code, left_g, right_g, due,
                   started, seen>>

\* detect_gesture lines 63 and 65: self.hand_gestures_dict["Right"] = "None",
\* release the lock, return frame, self.hand_gestures_dict, results
MainResetReturn ==
    /\ m_pc = "reset_right"
    /\ hand_gestures_dict' = DictPut(hand_gestures_dict, "Right", "None")
    /\ gr_lock' = Released("main")
    /\ m_pc' = "read_left"
    /\ seen' = {Pair(hand_gestures_dict')}
    /\ zero_hand_pass' = TRUE
    /\ UNCHANGED <<clock, dvars, avars, cb_printed, flip_results, timestamp, last_sent, inflight,
                   cb_pc, result, index, code, left_g, right_g, due, started>>

\* 01_gesture.py line 81: left_g = current_gesture.get("Left", "None"),
\* current_gesture being the dict object detect_gesture returned
MainReadLeft ==
    /\ m_pc = "read_left"
    /\ left_g' = DictGet(hand_gestures_dict, "Left")
    /\ m_pc' = "read_right"
    /\ UNCHANGED <<clock, dvars, avars, cb_printed, zero_hand_pass, flip_results, hand_gestures_dict, gr_lock,
                   timestamp, last_sent, inflight, cb_pc, result, index, code,
                   right_g, due, started, seen>>

\* 01_gesture.py line 82: right_g = current_gesture.get("Right", "None")
MainReadRight ==
    /\ m_pc = "read_right"
    /\ right_g' = DictGet(hand_gestures_dict, "Right")
    /\ m_pc' = "dispatch"
    /\ UNCHANGED <<clock, dvars, avars, cb_printed, zero_hand_pass, flip_results, hand_gestures_dict, gr_lock,
                   timestamp, last_sent, inflight, cb_pc, result, index, code,
                   left_g, due, started, seen>>

\* process_gesture, lines 41-46: the gestures a thread is started for
Started(gs) == SelectSeq(gs, LAMBDA g : g \in DOMAIN main_gesture_actions)

\* 01_gesture.py lines 84-96: once per delay, process_gesture(left_g) and
\* process_gesture(right_g); then waitKey: 'q' ends the loop
MainDispatch ==
    /\ m_pc = "dispatch"
    /\ IF due
       THEN /\ started' = Started(<<left_g, right_g>>)
            /\ due' = FALSE
       ELSE UNCHANGED <<started, due>>
    /\ m_pc' \in {"sample", "ended"}
    /\ left_g' = "None"
    /\ right_g' = "None"
    /\ seen' = {}
    /\ zero_hand_pass' = FALSE
    /\ UNCHANGED <<clock, dvars, avars, cb_printed, flip_results, hand_gestures_dict, gr_lock,
                   timestamp, last_sent, inflight, cb_pc, result, index, code>>

\* the delay (1 s, far more than MaxTime ms) has passed since last_time
DelayElapses ==
    /\ ~due
    /\ due' = TRUE
    /\ UNCHANGED <<clock, dvars, avars, cb_printed, zero_hand_pass, flip_results, hand_gestures_dict, gr_lock,
                   timestamp, last_sent, inflight, cb_pc, result, index, m_pc,
                   code, left_g, right_g, started, seen>>

\* the classifier's thread delivers the oldest result it owes:
\* results_callback(result, output_image, timestamp_ms) is entered
CallbackDeliver(r) ==
    /\ cb_pc = "idle"
    /\ inflight > 0
    /\ inflight' = inflight - 1
    /\ result' = r
    /\ index' = 1
    /\ cb_pc' = "lock"
    /\ cb_printed' = 0
    /\ UNCHANGED <<clock, dvars, avars, zero_hand_pass, flip_results, hand_gestures_dict, gr_lock,
                   timestamp, last_sent, m_pc, code, left_g, right_g, due,
                   started, seen>>

\* results_callback line 68: with self.lock (acquire)
CallbackAcquire ==
    /\ cb_pc = "lock"
    /\ GrLockFree
    /\ gr_lock' = {"callback"}
    /\ cb_pc' = "guard"
    /\ UNCHANGED <<clock, dvars, avars, cb_printed, zero_hand_pass, flip_results, hand_gestures_dict, timestamp,
                   last_sent, inflight, result, index, m_pc, code, left_g,
                   right_g, due, started, seen>>

\* results_callback lines 69-70: return on an empty result
CallbackGuard ==
    /\ cb_pc = "guard"
    /\ IF EmptyResult(result)
       THEN /\ gr_lock' = Released("callback")
            /\ cb_pc' = "idle"
            /\ result' = NoResult
       ELSE /\ cb_pc' = "loop"
            /\ UNCHANGED <<gr_lock, result>>
    /\ UNCHANGED <<clock, dvars, avars, cb_printed, zero_hand_pass, flip_results, hand_gestures_dict, timestamp,
                   last_sent, inflight, index, m_pc, code, left_g, right_g,
                   due, started, seen>>

\* results_callback lines 72-92: one pass of the loop over
\* result.handedness (the write, then the print of line 92), or its end
\* (the lock is released on return)
CallbackHand ==
    /\ cb_pc = "loop"
    /\ IF index \in DOMAIN result.handedness
       THEN /\ hand_gestures_dict' =
                  DictPut(hand_gestures_dict,
                          Corrected(HandName(result, index)),
                          GestureName(result, index))
            /\ index' = index + 1
            /\ seen' = SeenAfterWrite(hand_gestures_dict')
            /\ cb_printed' = cb_printed + 1
            /\ UNCHANGED <<gr_lock, cb_pc, result>>
       ELSE /\ gr_lock' = Released("callback")
            /\ cb_pc' = "idle"
            /\ result' = NoResult
            /\ index' = 1
            /\ UNCHANGED <<hand_gestures_dict, seen, cb_printed>>
    /\ UNCHANGED <<clock, dvars, avars, zero_hand_pass, flip_results, timestamp, last_sent, inflight,
                   m_pc, code, left_g, right_g, due, started>>

\* ------------------------------------------------------------------------
\* app.py: main loop, point history and finger gesture history

history_length == 16    \* history_length = 16

MaxHands == 2           \* hands detected in one frame

\* point_history.append([0, 0])
Sentinel == <<0, 0>>

\* landmark_list[8], the index fingertip
Landmarks == {<<1, 1>>}

\* ids returned by keypoint_classifier (indices into the label list)
HandSignIds == {2, 5}

\* ids returned by point_history_classifier
FingerIds == {0, 1}

\* Python values carry their type: an int and a str are never equal
PyInt(n) == [type |-> "int", v |-> n]

PyStr(x) == [type |-> "str", v |-> x]

PyEq(a, b) == a.type = b.type /\ a.v = b.v

\* the literal hand_sign_id is compared with before the fingertip is appended
PointerLiteral == PyStr("Change to pointer id in the future")

\* the entry appended to point_history for a hand classified as id
PointFor(id, lm) ==
    IF PyEq(PyInt(id), PointerLiteral) THEN lm ELSE Sentinel

DequeAppendDropNewest(h, x) ==
    IF Len(h) < history_length THEN Append(h, x) ELSE h

\* deque(maxlen=history_length).append(x)
DequeAppend(h, x) ==
    IF Len(h) < history_length THEN Append(h, x) ELSE Append(Tail(h), x)

\* len(pre_process_point_history(debug_image, point_history)): the points
\* of the history flattened to one list of scalars, two for each point
PreProcessedLen(h) == 2 * Len(h)

ShouldClassifyHalf(len) == len = history_length

\* if point_history_len == (history_length * 2)
ShouldClassify(len) == len = history_length * 2

\* the SportClient method called in the loop body for a hand sign id
SportCall(id) ==
    CASE id = 5 -> "StandUp"
      [] id = 6 -> "StandDown"
      [] id = 0 -> "Hello"
      [] OTHER  -> "none"

\* Counter(h): the distinct values of h[1..n], in order of first occurrence
RECURSIVE CounterKeys(_, _)
CounterKeys(h, n) ==
    IF n = 0 THEN <<>>
    ELSE LET k == CounterKeys(h, n - 1)
         IN  IF \E j \in DOMAIN k : k[j] = h[n] THEN k ELSE Append(k, h[n])

\* Counter(h)[v]
Count(h, v) == Cardinality({i \in DOMAIN h : h[i] = v})

\* Counter(h).items(): (value, count) pairs in order of first occurrence
CounterItems(h) ==
    LET k == CounterKeys(h, Len(h))
    IN  [i \in DOMAIN k |-> <<k[i], Count(h, k[i])>>]

\* one step of a stable sort by count, descending: x goes behind every
\* pair whose count is at least its own
InsertStable(s, x) ==
    LET p == Cardinality({i \in DOMAIN s : s[i][2] >= x[2]})
    IN  SubSeq(s, 1, p) \o <<x>> \o SubSeq(s, p + 1, Len(s))

InsertBeforeTies(s, x) ==
    LET p == Cardinality({i \in DOMAIN s : s[i][2] > x[2]})
    IN  SubSeq(s, 1, p) \o <<x>> \o SubSeq(s, p + 1, Len(s))

RECURSIVE SortedByCount(_, _)
SortedByCount(items, n) ==
    IF n = 0 THEN <<>>
    ELSE InsertStable(SortedByCount(items, n - 1), items[n])

RECURSIVE SortedTiesReversed(_, _)
SortedTiesReversed(items, n) ==
    IF n = 0 THEN <<>>
    ELSE InsertBeforeTies(SortedTiesReversed(items, n - 1), items[n])

MostCommonTiesReversed(h) ==
    SortedTiesReversed(CounterItems(h), Len(CounterItems(h)))

\* Counter(h).most_common(): sorted(items, key=count, reverse=True)
MostCommon(h) == SortedByCount(CounterItems(h), Len(CounterItems(h)))

AInit ==
    /\ a_pc = "frame"
    /\ hands_left = 0
    /\ point_history = <<>>
    /\ finger_gesture_history = <<>>
    /\ most_common_fg_id = <<>>
    /\ classifier_called = FALSE
    /\ sport_call = "none"
    /\ hand_sign_id = -1

\* key == 27: break
AppEsc ==
    /\ a_pc = "frame"
    /\ a_pc' = "ended"
    /\ UNCHANGED <<hands_left, point_history, finger_gesture_history,
                   most_common_fg_id, classifier_called, sport_call,
                   hand_sign_id>>
    /\ UNCHANGED <<clock, dvars, rvars>>

\* code != 0, no data, or imdecode returns None: continue
AppSkip(f) ==
    /\ a_pc = "frame"
    /\ f \in {"failure", "nodata", "undecodable"}
    /\ UNCHANGED <<a_pc, hands_left, point_history, finger_gesture_history,
                   most_common_fg_id, classifier_called, sport_call,
                   hand_sign_id>>
    /\ UNCHANGED <<clock, dvars, rvars>>

\* results.multi_hand_landmarks is None: point_history.append([0, 0])
AppNoHands ==
    /\ a_pc = "frame"
    /\ point_history' = DequeAppend(point_history, Sentinel)
    /\ UNCHANGED <<a_pc, hands_left, finger_gesture_history,
                   most_common_fg_id, classifier_called, sport_call,
                   hand_sign_id>>
    /\ UNCHANGED <<clock, dvars, rvars>>

\* results.multi_hand_landmarks lists n hands: enter the for loop
AppHands(n) ==
    /\ a_pc = "frame"
    /\ n \in 1..MaxHands
    /\ a_pc' = "hand"
    /\ hands_left' = n
    /\ UNCHANGED <<point_history, finger_gesture_history, most_common_fg_id,
                   classifier_called, sport_call,
                   hand_sign_id>>
    /\ UNCHANGED <<clock, dvars, rvars>>

\* body of the for loop over the hands of one frame
AppHand ==
    /\ a_pc = "hand"
    /\ hands_left > 0
    /\ \E id \in HandSignIds, lm \in Landmarks, fg \in FingerIds :
         LET len  == PreProcessedLen(point_history)
             call == ShouldClassify(len)
             finger_gesture_id == IF call THEN fg ELSE 0
             h    == DequeAppend(finger_gesture_history, finger_gesture_id)
         IN  /\ point_history' = DequeAppend(point_history, PointFor(id, lm))
             /\ classifier_called' = call
             /\ finger_gesture_history' = h
             /\ most_common_fg_id' = MostCommon(h)
             /\ sport_call' = SportCall(id)
             /\ hand_sign_id' = id
    /\ hands_left' = hands_left - 1
    /\ a_pc' = IF hands_left = 1 THEN "frame" ELSE "hand"
    /\ UNCHANGED <<clock, dvars, rvars>>

\* real time passes
Tick ==
    /\ clock < MaxTime
    /\ clock' = clock + 1
    /\ UNCHANGED <<dvars, rvars, avars>>

Init == clock = 0 /\ DInit /\ RInit /\ AInit /\ flip_results

Next ==
    \/ \E t \in Threads, g \in GestureInputs : ProcessLookup(t, g)
    \/ \E t \in Threads : ProcessAcquire(t)
    \/ \E t \in Threads : ProcessCheck(t)
    \/ \E t \in Threads : ProcessUpdate(t)
    \/ \E t \in Threads : ProcessStart(t)
    \/ \E k \in DOMAIN gesture_actions : ActionFinish(k)
    \/ \E k \in DOMAIN gesture_actions : ActionFail(k)
    \/ Tick

Spec == Init /\ [][Next]_vars

RecognizerInit == clock = 0 /\ DInit /\ RInit /\ AInit

RecognizerNext ==
    \/ MainSample
    \/ MainSubmit
    \/ MainSnapAcquire
    \/ MainSnapReturn
    \/ MainResetAcquire
    \/ MainResetLeft
    \/ MainResetReturn
    \/ MainReadLeft
    \/ MainReadRight
    \/ MainDispatch
    \/ DelayElapses
    \/ \E r \in Results : CallbackDeliver(r)
    \/ CallbackAcquire
    \/ CallbackGuard
    \/ CallbackHand
    \/ Tick

RecognizerSpec == RecognizerInit /\ [][RecognizerNext]_vars

AppInit == clock = 0 /\ DInit /\ RInit /\ AInit /\ flip_results

AppNext ==
    \/ AppEsc
    \/ \E f \in {"failure", "nodata", "undecodable"} : AppSkip(f)
    \/ AppNoHands
    \/ \E n \in 1..MaxHands : AppHands(n)
    \/ AppHand

AppSpec == AppInit /\ [][AppNext]_vars


\* ------------------------------------------------------------------------
\* Properties of GestureDispatcher
\* ------------------------------------------------------------------------
Registered == DOMAIN gesture_actions

\* the call in progress of thread t has a timestamp inside the cooldown
\* window [a.now, a.now + cooldown) opened by the accepted call a
InWindowOf(t, a) ==
    /\ a.gesture = gesture[t]
    /\ a.now <= now[t]
    /\ now[t] < a.now + cooldown

\* thread t leaves the position p in this step
Leaves(t, p) == pc[t] = p /\ pc'[t] # p

\* C1 (debounce): every cooldown window [t1, t1 + cooldown) opened by an
\* accepted call at t1 holds exactly one accepted call and at most one
\* launch of that gesture, the one at t1; a call whose timestamp lies in
\* the window is dropped at the check: it returns and changes neither the
\* table nor the launches.
C1_Debounce ==
    /\ [](\A a \in DOMAIN accepted :
            /\ accepted[a] = 1
            /\ \A b \in DOMAIN accepted :
                 (b.gesture = a.gesture /\ a.now <= b.now
                    /\ b.now < a.now + cooldown) => b = a
            /\ \A l \in DOMAIN launches :
                 (l.gesture = a.gesture /\ a.now <= l.now
                    /\ l.now < a.now + cooldown) => (l = a /\ launches[l] = 1))
    /\ [][\A t \in Threads :
            (Leaves(t, "check") /\ \E a \in DOMAIN accepted : InWindowOf(t, a))
              => /\ pc'[t] = "idle"
                 /\ event' = [kind |-> "cooldown", gesture |-> gesture[t]]
                 /\ UNCHANGED <<last_run, accepted, launches, running>>]_vars

\* C1 witness: a call with a timestamp strictly inside the window of the
\* accepted call has just been dropped, after that call launched its action.
C1_Witness ==
    /\ event.kind = "cooldown"
    /\ \E a \in DOMAIN launches : a.gesture = event.gesture
    /\ \E t \in Threads : pc[t] = "check" /\ gesture[t] \in DOMAIN last_run
          /\ now[t] > last_run[gesture[t]]
          /\ now[t] < last_run[gesture[t]] + cooldown

\* C2 (re-arm): a call that reaches the check with now - last_run[key] >=
\* cooldown (equality included) is accepted: it goes on to write
\* last_run[key] = now, and then starts one more action thread.
C2_Rearm ==
    /\ [][\A t \in Threads :
            (Leaves(t, "check") /\ gesture[t] \in DOMAIN last_run
               /\ now[t] - last_run[gesture[t]] >= cooldown)
              => pc'[t] = "update"]_vars
    /\ [][\A t \in Threads :
            Leaves(t, "update")
              => /\ pc'[t] = "start"
                 /\ gesture[t] \in DOMAIN last_run'
                 /\ last_run'[gesture[t]] = now[t]]_vars
    /\ [][\A t \in Threads :
            Leaves(t, "start")
              => /\ running'[gesture[t]] = running[gesture[t]] + 1
                 /\ Call(t) \in DOMAIN launches'
                 /\ event' = [kind |-> "launched", gesture |-> gesture[t]]]_vars

\* C2 witness: the same gesture was launched at t1 and again at exactly
\* t1 + cooldown.
C2_Witness ==
    \E a, b \in DOMAIN launches :
        a.gesture = b.gesture /\ b.now = a.now + cooldown

\* C3 (unregistered key): a call with a gesture that has no bound action
\* never gets past the lookup, so it never takes the lock, never enters the
\* table or the launches, and the step in which it returns changes nothing
\* of the dispatcher.
C3_UnregisteredKey ==
    /\ [](/\ \A t \in Threads : pc[t] # "idle" => gesture[t] \in Registered
          /\ \A t \in lock : gesture[t] \in Registered
          /\ DOMAIN last_run \subseteq Registered
          /\ \A a \in DOMAIN accepted \cup DOMAIN launches :
                a.gesture \in Registered)
    /\ [][(event'.kind = "noaction" /\ event' # event)
            => /\ event'.gesture \notin Registered
               /\ UNCHANGED <<pc, gesture, now, lock, last_run, accepted,
                              launches, last_launch, running>>]_vars

\* C3 witness: an unregistered call has just returned while another call
\* holds the lock and the table is not empty.
C3_Witness ==
    /\ event.kind = "noaction"
    /\ event.gesture \notin Registered
    /\ lock # {}
    /\ DOMAIN last_run # {}

\* C4 (atomic check-and-update): the accepted calls of one gesture have
\* timestamps pairwise at least cooldown apart, and no timestamp is accepted
\* twice.
C4_AcceptedApart ==
    \A a, b \in DOMAIN accepted :
        /\ accepted[a] = 1
        /\ (a # b /\ a.gesture = b.gesture)
             => (a.now - b.now >= cooldown \/ b.now - a.now >= cooldown)

\* C4 witness: two concurrent calls of one gesture, each eligible against
\* the table as it was when both sampled their time; one has been accepted,
\* the other waits at the check inside the lock and will be dropped.
C4_Witness ==
    \E t, u \in Threads :
        /\ t # u
        /\ pc[t] = "start" /\ pc[u] = "check"
        /\ gesture[t] = gesture[u]
        /\ now[u] >= cooldown
        /\ \A a \in DOMAIN accepted : a.gesture = gesture[t] => a = Call(t)
        /\ now[u] - now[t] < cooldown /\ now[t] - now[u] < cooldown

\* C5 (launches apart in real time): when an action thread is started, the
\* previous start of the same gesture's action is at least cooldown earlier
\* on the real-time clock.
C5_LaunchesApartInRealTime ==
    [][\A t \in Threads :
         (Leaves(t, "start") /\ gesture[t] \in DOMAIN last_launch)
           => clock - last_launch[gesture[t]] >= cooldown]_vars

\* C6 (lock not held across the launch): a thread that is about to start
\* the action thread, or that is outside the with block, does not hold the
\* lock; only threads inside the check-and-update hold it.
C6_LockNotHeldAtLaunch ==
    /\ \A t \in Threads : pc[t] \in {"start", "idle", "lock"} => t \notin lock
    /\ \A t \in lock : pc[t] \in {"check", "update"}

\* C6 witness: an action is running and another is about to be started
\* while a different thread is inside the lock.
C6_Witness ==
    \E t, u \in Threads :
        /\ pc[t] = "start" /\ u \in lock /\ t # u
        /\ \E k \in Registered : running[k] > 0

\* C7 (failure isolation): the step in which an action thread ends by an
\* exception changes nothing of the dispatcher and of the calls in
\* progress: the table keeps the accepted timestamp.
C7_FailureIsolated ==
    [][(event'.kind = "failed" /\ running' # running)
         => /\ UNCHANGED <<pc, gesture, now, lock, last_run, accepted,
                           launches, last_launch>>
            /\ event'.gesture \in DOMAIN last_run
            /\ running'[event'.gesture] = running[event'.gesture] - 1]_vars

\* C7 witness: an action has failed, its gesture keeps its table entry, and
\* a later call of that gesture is at the check inside that entry's window.
C7_Witness ==
    /\ event.kind = "failed"
    /\ event.gesture \in DOMAIN last_run
    /\ \E t \in Threads :
          /\ pc[t] = "check" /\ gesture[t] = event.gesture
          /\ now[t] - last_run[gesture[t]] < cooldown

\* the call of thread t is eligible by the entry of its own gesture alone
OwnEligible(t) ==
    IF gesture[t] \in DOMAIN last_run
    THEN now[t] - last_run[gesture[t]] >= cooldown
    ELSE now[t] >= cooldown

\* C8 (per-key independence): the entry of a gesture changes only in the
\* update step of a call of that same gesture, that step changes no other
\* entry, and a call eligible by its own gesture's entry is accepted
\* whatever the entries of the other gestures are.
C8_PerKeyIndependence ==
    /\ [][\A k \in DOMAIN last_run' :
            (k \notin DOMAIN last_run \/ last_run'[k] # last_run[k])
              => \E t \in Threads :
                   /\ Leaves(t, "update") /\ gesture[t] = k
                   /\ \A j \in DOMAIN last_run \ {k} :
                        j \in DOMAIN last_run' /\ last_run'[j] = last_run[j]]_vars
    /\ [][\A t \in Threads :
            (Leaves(t, "check") /\ OwnEligible(t)) => pc'[t] = "update"]_vars

\* C8 witness: two distinct gestures were both launched by calls that
\* sampled the same time.
C8_Witness ==
    \E a, b \in DOMAIN launches :
        a.gesture # b.gesture /\ a.now = b.now /\ running[a.gesture] > 0
           /\ running[b.gesture] > 0

\* ------------------------------------------------------------------------
\* Properties of GestureRecognizer and the main loop of 01_gesture.py
\* ------------------------------------------------------------------------

\* C9 (snapshot consistency): once the main loop has read both entries of
\* the dict detect_gesture returned, the pair (left_g, right_g) it goes on
\* to act on is a value the dict held at some single instant since
\* detect_gesture returned. (01_gesture.py builds GestureRecognizer() with
\* the default flip_results = True.)
C9_SnapshotConsistent ==
    (flip_results /\ m_pc = "dispatch") => <<left_g, right_g>> \in seen

\* C10 (strictly increasing timestamps): each submission after the first
\* passes the classifier a timestamp strictly greater than the timestamp of
\* the previous submission (self.timestamp before line 54 overwrites it).
C10_TimestampsIncrease ==
    [][(m_pc = "submit" /\ m_pc' # "submit" /\ last_sent >= 0)
         => timestamp' > timestamp]_vars

\* the hand at position i of the result in hand has no usable gesture entry
NoUsableGesture(i) ==
    i \notin DOMAIN result.gestures \/ result.gestures[i] = ""

\* this step is one pass of the loop of results_callback over hand `index`
LoopPass ==
    cb_pc = "loop" /\ index \in DOMAIN result.handedness /\ index' = index + 1

\* C11 (handedness correction): a loop pass over a hand whose raw label is
\* "Left" or "Right" and that has a gesture stores that gesture under the
\* other side when flip_results is set, under the raw label when it is not,
\* and changes no other entry.
C11_HandednessCorrection ==
    [][(LoopPass /\ result.handedness[index] \in {"Left", "Right"}
          /\ ~NoUsableGesture(index))
         => LET raw == result.handedness[index]
                key == IF flip_results
                       THEN (IF raw = "Left" THEN "Right" ELSE "Left")
                       ELSE raw
            IN  (key \in DOMAIN hand_gestures_dict'
                   /\ hand_gestures_dict'[key] = result.gestures[index]
                   /\ \A j \in DOMAIN hand_gestures_dict \ {key} :
                         (j \in DOMAIN hand_gestures_dict'
                            /\ hand_gestures_dict'[j]
                                  = hand_gestures_dict[j]))]_vars

\* C11 witness: with the flag set, the gesture of a raw "Left" hand has been
\* stored under "Right" and not under "Left".
C11_Witness ==
    /\ flip_results
    /\ cb_pc = "loop" /\ index = 2
    /\ result.handedness[1] = "Left" /\ result.gestures[1] = "Thumb_Up"
    /\ hand_gestures_dict["Right"] = "Thumb_Up"
    /\ hand_gestures_dict["Left"] # "Thumb_Up"

\* C12 (no-hands reset): the two writes of a zero-hand pass happen while
\* the main loop holds the lock; when the pass returns both entries are
\* "None" and the lock is free; during the pass nothing is submitted.
C12_NoHandsReset ==
    /\ [](m_pc \in {"reset_left", "reset_right"} => gr_lock = {"main"})
    /\ [][(m_pc = "reset_right" /\ m_pc' # "reset_right")
            => (m_pc' = "read_left"
                  /\ hand_gestures_dict'["Left"] = "None"
                  /\ hand_gestures_dict'["Right"] = "None"
                  /\ "main" \notin gr_lock')]_vars
    /\ [][(m_pc \in {"reset_lock", "reset_left", "reset_right"})
            => (timestamp' = timestamp /\ last_sent' = last_sent
                  /\ inflight' <= inflight)]_vars

\* C12 witness: a zero-hand pass has reset Left and is about to reset a
\* Right entry that holds a label, while a delivered result waits for the
\* lock.
C12_Witness ==
    /\ m_pc = "reset_right"
    /\ hand_gestures_dict["Left"] = "None"
    /\ hand_gestures_dict["Right"] \notin {"None", "Unknown"}
    /\ gr_lock = {"main"}
    /\ cb_pc = "lock"

\* C13 as amended (malformed result tolerance): for a result in which at
\* least one hand has a gesture (it passed the guard of lines 69-70), the
\* loop pass over a hand without a usable gesture entry stores "Unknown" in
\* the entry it writes and changes no other entry; the loop goes through
\* every hand of result.handedness and the lock is released on return.
C13_MalformedTolerated ==
    /\ [][(LoopPass /\ NoUsableGesture(index))
            => (\E k \in DOMAIN hand_gestures_dict' :
                  (hand_gestures_dict'[k] = "Unknown"
                     /\ \A j \in DOMAIN hand_gestures_dict \ {k} :
                           (j \in DOMAIN hand_gestures_dict'
                              /\ hand_gestures_dict'[j]
                                    = hand_gestures_dict[j])))]_vars
    /\ [][(cb_pc = "loop" /\ cb_pc' = "idle")
            => (index = Len(result.handedness) + 1
                  /\ "callback" \notin gr_lock')]_vars
    /\ [](cb_pc \in {"idle", "lock"} => "callback" \notin gr_lock)

\* C13 as stated: moreover every result that lists a hand without a usable
\* gesture entry gets to the loop (it is not dropped by the guard).
C13_MalformedAlwaysStored ==
    /\ C13_MalformedTolerated
    /\ [][(cb_pc = "guard"
            /\ \E i \in DOMAIN result.handedness : NoUsableGesture(i))
            => cb_pc' # "idle"]_vars

\* C13 witness: of a result with two hands and one gesture entry, the
\* first hand's gesture and the second hand's "Unknown" have been stored.
C13_Witness ==
    /\ cb_pc = "loop" /\ index = 3
    /\ Len(result.handedness) = 2 /\ Len(result.gestures) = 1
    /\ \E k \in DOMAIN hand_gestures_dict :
          hand_gestures_dict[k] = result.gestures[1]
    /\ \E k \in DOMAIN hand_gestures_dict : hand_gestures_dict[k] = "Unknown"

\* C14 (key set): the dict has exactly the keys "Left" and "Right".
C14_KeySet == DOMAIN hand_gestures_dict = {"Left", "Right"}

\* ------------------------------------------------------------------------
\* Properties of the histories of app.py

\* the values with maximal count in h
Tied(h) ==
    LET values == {h[i] : i \in DOMAIN h}
    IN  {v \in values : \A w \in values : Count(h, v) >= Count(h, w)}

\* position of the first occurrence of v in h
FirstIndex(h, v) ==
    CHOOSE i \in DOMAIN h : h[i] = v /\ \A j \in 1..(i - 1) : h[j] # v

\* position at which v reaches its count in h, scanning from the oldest
ReachIndex(h, v) ==
    CHOOSE i \in DOMAIN h : h[i] = v /\ \A j \in (i + 1)..Len(h) : h[j] # v

\* most_common_fg_id[0][0]
Top == most_common_fg_id[1][1]

\* C15 as amended (majority vote): the effective trajectory label is a
\* value with maximal count in the history, and among the values tied at
\* the maximal count it is the one whose first occurrence in the history is
\* the oldest; [0,0,1,0,2] gives 0 and [1,1,2,2,0] gives 1 (the two
\* examples are evaluated once, in the states with an empty history).
C15_MajorityVote ==
    /\ finger_gesture_history # <<>>
         => /\ Top \in Tied(finger_gesture_history)
            /\ \A v \in Tied(finger_gesture_history) :
                  FirstIndex(finger_gesture_history, Top)
                    <= FirstIndex(finger_gesture_history, v)
    /\ finger_gesture_history = <<>>
         => /\ MostCommon(<<0, 0, 1, 0, 2>>)[1][1] = 0
            /\ MostCommon(<<1, 1, 2, 2, 0>>)[1][1] = 1

\* C15 as stated: among the values tied at the maximal count the label is
\* the one that reached that count first, scanning oldest to newest.
C15_ReachedCountFirst ==
    finger_gesture_history # <<>>
      => /\ Top \in Tied(finger_gesture_history)
         /\ \A v \in Tied(finger_gesture_history) :
               ReachIndex(finger_gesture_history, Top)
                 <= ReachIndex(finger_gesture_history, v)

\* C15 witness: ids 0 and 1 are tied, 1 occurred first and is the label.
C15_Witness ==
    /\ finger_gesture_history # <<>>
    /\ Tied(finger_gesture_history) = {0, 1}
    /\ finger_gesture_history[1] = 1
    /\ Top = 1

\* C16 (trajectory gating): processing a hand calls the trajectory
\* classifier iff point_history held history_length entries when it was
\* pre-processed (2 x 16 = 32 scalars); otherwise the id appended to
\* finger_gesture_history is 0.
C16_TrajectoryGating ==
    [][(a_pc = "hand" /\ hands_left' # hands_left)
         => /\ classifier_called' <=> (Len(point_history) = 16)
            /\ classifier_called' <=> (PreProcessedLen(point_history) = 32)
            /\ ~classifier_called'
                 => finger_gesture_history'[Len(finger_gesture_history')] = 0
       ]_vars

\* C16 witness: the classifier was called for the last hand and its id 1
\* was appended behind the neutral ids of the hands before the history of
\* points was full.
C16_Witness ==
    /\ classifier_called
    /\ Len(finger_gesture_history) > 1
    /\ finger_gesture_history[Len(finger_gesture_history)] = 1
    /\ finger_gesture_history[1] = 0

\* h2 is h after one append to a deque of at most history_length entries
Appended(h, h2) ==
    /\ Len(h2) = (IF Len(h) < 16 THEN Len(h) + 1 ELSE 16)
    /\ \A i \in 1..(Len(h2) - 1) : h2[i] = h[i + Len(h) + 1 - Len(h2)]

\* C17 (bounded histories): both histories hold at most 16 entries; every
\* hand appends one entry to each and a frame without hands one to
\* point_history, and an append to a full history drops exactly the oldest
\* entry and keeps the order of the others.
C17_BoundedHistories ==
    /\ [](Len(point_history) <= 16 /\ Len(finger_gesture_history) <= 16)
    /\ [][(a_pc = "hand" /\ hands_left' # hands_left)
            => (Appended(point_history, point_history')
                  /\ Appended(finger_gesture_history,
                              finger_gesture_history'))]_vars
    /\ [][(a_pc = "frame")
            => (finger_gesture_history' = finger_gesture_history
                  /\ (point_history' = point_history
                        \/ Appended(point_history, point_history')))]_vars

\* C17 witness: both histories are full, the finger gesture history holds
\* different ids, and a hand is about to append to both.
C17_Witness ==
    /\ Len(point_history) = 16
    /\ Len(finger_gesture_history) = 16
    /\ finger_gesture_history[1] = 1
    /\ finger_gesture_history[2] = 0
    /\ finger_gesture_history[16] = 1
    /\ a_pc = "hand"

\* ------------------------------------------------------------------------
\* C18 (acquisition failure is non-fatal): the main loop of 01_gesture.py
\* ends only on the operator's request, which is read at the end of a
\* cycle; a cycle whose frame cannot be used goes on to the next frame.
C18_OnlyOperatorEndsLoop ==
    [][(m_pc # "ended" /\ m_pc' = "ended") => m_pc = "dispatch"]_vars

\* C19 (first dispatch): a call for a registered key that has no entry in
\* the table is accepted, whatever its reading of the clock.
C19_FirstDispatchAccepted ==
    [][\A t \in Threads :
          (Leaves(t, "check") /\ gesture[t] \notin DOMAIN last_run)
            => pc'[t] = "update"]_vars

\* C20 (monotonicity of the table): an entry is never removed; it changes
\* only in the update step of an accepted call for its key, to the reading
\* of that call, which is at least cooldown above the value it replaces; an
\* entry appears only in the update step of an accepted call for its key.
C20_TableMonotonic ==
    /\ [][\A k \in DOMAIN last_run :
            /\ k \in DOMAIN last_run'
            /\ \/ last_run'[k] = last_run[k]
               \/ /\ last_run'[k] >= last_run[k] + cooldown
                  /\ last_run'[k] > last_run[k]
                  /\ \E t \in Threads :
                        /\ pc[t] = "update" /\ pc'[t] = "start"
                        /\ gesture[t] = k /\ now[t] = last_run'[k]]_vars
    /\ [][\A k \in DOMAIN last_run' \ DOMAIN last_run :
            \E t \in Threads :
               /\ pc[t] = "update" /\ pc'[t] = "start"
               /\ gesture[t] = k /\ now[t] = last_run'[k]]_vars

\* C20 witness: the entry of a key has been replaced by a larger reading
\* and a concurrent call for that key holds an older reading of the clock
\* at the cooldown test.
C20_Witness ==
    \E t \in Threads :
       /\ pc[t] = "check"
       /\ gesture[t] \in DOMAIN last_run
       /\ now[t] < last_run[gesture[t]]
       /\ \E c \in DOMAIN accepted :
             c.gesture = gesture[t] /\ c.now < last_run[gesture[t]]

\* ------------------------------------------------------------------------
\* no call of process is in progress
AllReturned == \A t \in Threads : pc[t] = "idle"

\* C21 (one launch per accepted trigger, without waiting): when no call of
\* process is in progress, the threads launched are exactly the writes of
\* the table, one for one (so their numbers agree for each key); process
\* can always take its last step, whatever is running, and returns while
\* the action it started is still running.
C21_OneLaunchPerAccepted ==
    /\ [](AllReturned => launches = accepted)
    /\ [](\A t \in Threads : pc[t] = "start" => ENABLED ProcessStart(t))
    /\ [][\A t \in Threads :
            Leaves(t, "start")
              => (pc'[t] = "idle"
                    /\ running'[gesture[t]] = running[gesture[t]] + 1)]_vars

\* C21 witness: every call has returned, a key's table entry was written
\* and the action launched for it is still running.
C21_Witness ==
    /\ AllReturned
    /\ \E c \in DOMAIN accepted : launches[c] = 1 /\ running[c.gesture] > 0

\* C22 (overlapping executions): whether an action of the key is still
\* running plays no part in the cooldown test: a call whose reading is at
\* least cooldown after the key's entry is accepted while an execution is
\* running, and its launch adds a second execution beside the first.
C22_OverlapNotPrevented ==
    /\ [][\A t \in Threads :
            (Leaves(t, "check") /\ running[gesture[t]] > 0
               /\ gesture[t] \in DOMAIN last_run
               /\ now[t] >= last_run[gesture[t]] + cooldown)
              => pc'[t] = "update"]_vars
    /\ [][\A t \in Threads :
            (Leaves(t, "start") /\ running[gesture[t]] > 0)
              => running'[gesture[t]] >= 2]_vars

\* C22 witness: two executions of the same key's action run at once, the
\* second accepted at least cooldown after the first.
C22_Witness ==
    \E a, b \in DOMAIN launches :
       /\ a.gesture = b.gesture
       /\ b.now >= a.now + cooldown
       /\ running[a.gesture] = 2

\* C23 (stale resurrection, last writer wins): a zero-hand pass submits
\* nothing, so a result written after its reset was submitted before it;
\* such a loop pass of the callback still stores its label (no fencing),
\* and an entry changes only in a loop pass of the callback or in the two
\* writes of a zero-hand pass, so the stale label stays until one of them.
C23_LastWriterWins ==
    /\ [][(LoopPass /\ zero_hand_pass)
            => (\E k \in DOMAIN hand_gestures_dict' :
                  hand_gestures_dict'[k] =
                     (IF NoUsableGesture(index) THEN "Unknown"
                      ELSE result.gestures[index]))]_vars
    /\ [][\A k \in DOMAIN hand_gestures_dict :
            (k \notin DOMAIN hand_gestures_dict'
               \/ hand_gestures_dict'[k] # hand_gestures_dict[k])
              => (LoopPass \/ m_pc \in {"reset_left", "reset_right"})]_vars

\* C23 witness: after the reset of a zero-hand pass, and before the main
\* loop has read the entries, a result submitted earlier has set an entry
\* back to a gesture label.
C23_Witness ==
    /\ zero_hand_pass
    /\ m_pc = "read_left"
    /\ \E k \in {"Left", "Right"} :
          hand_gestures_dict[k] \notin {"None", "Unknown"}

\* C24 (writes only under the lock): the dict changes only in a loop pass
\* of results_callback or in the two writes of the no-hands reset; the
\* callback is inside its guarded block only as the holder of the lock and
\* so is the reset, and the lock has at most one holder, so the two writers
\* are never inside their writes together.
C24_WritesUnderLock ==
    /\ [][hand_gestures_dict' # hand_gestures_dict
            => ((LoopPass /\ gr_lock = {"callback"})
                  \/ (m_pc \in {"reset_left", "reset_right"}
                        /\ gr_lock = {"main"}))]_vars
    /\ [](cb_pc \in {"guard", "loop"} => gr_lock = {"callback"})
    /\ [](m_pc \in {"snap", "reset_left", "reset_right"}
            => gr_lock = {"main"})
    /\ [](Cardinality(gr_lock) <= 1)

\* C24 witness: the callback has written one hand under the lock while the
\* main loop waits for the lock to reset the entries.
C24_Witness ==
    /\ cb_pc = "loop" /\ index = 2
    /\ gr_lock = {"callback"}
    /\ m_pc = "reset_lock"
    /\ \E k \in DOMAIN hand_gestures_dict :
          hand_gestures_dict[k] \notin {"None", "Unknown"}

\* C25 (no lock across the submission): detect_gesture is not a holder of
\* the lock when it calls recognize_async, so a callback that waits for the
\* lock then can take it; a context holds the lock only inside its own
\* guarded block, so the main loop and the callback never wait for each
\* other.
C25_NoLockAcrossSubmit ==
    /\ [](m_pc = "submit" => "main" \notin gr_lock)
    /\ []((m_pc = "submit" /\ cb_pc = "lock") => ENABLED CallbackAcquire)
    /\ []("main" \in gr_lock => m_pc \in {"snap", "reset_left", "reset_right"})
    /\ []("callback" \in gr_lock => cb_pc \in {"guard", "loop"})

\* C25 witness: the callback holds the lock and is writing while the main
\* loop is at the submission of the next frame.
C25_Witness ==
    /\ m_pc = "submit"
    /\ cb_pc = "loop"
    /\ gr_lock = {"callback"}
    /\ last_sent >= 0

\* C26 (the callback context never blocks): results_callback performs no
\* I/O: it writes nothing to the standard output.
C26_CallbackNoIO == cb_printed = 0

\* C27 (empty result is a no-op): when the result in hand is missing, or no
\* hand of it has a gesture, the step after the lock was taken returns from
\* the callback: every entry of the dict is as before, the lock is
\* released, and the callback is ready for the next result.
C27_EmptyResultNoOp ==
    [][(cb_pc = "guard" /\ cb_pc' # "guard"
          /\ (~result.present
                \/ \A i \in DOMAIN result.gestures : result.gestures[i] = ""))
         => (hand_gestures_dict' = hand_gestures_dict
               /\ cb_pc' = "idle"
               /\ "callback" \notin gr_lock')]_vars

\* C27 witness: the callback holds the lock with a result that lists a hand
\* without any gesture, while an entry of the dict holds a label.
C27_Witness ==
    /\ cb_pc = "guard"
    /\ result.present
    /\ result.handedness # <<>>
    /\ \A i \in DOMAIN result.gestures : result.gestures[i] = ""
    /\ \E k \in DOMAIN hand_gestures_dict :
          hand_gestures_dict[k] \notin {"None", "Unknown"}

\* the same with a missing result in hand
C27_WitnessMissing ==
    /\ cb_pc = "guard"
    /\ ~result.present
    /\ \E k \in DOMAIN hand_gestures_dict :
          hand_gestures_dict[k] \notin {"None", "Unknown"}

\* C28 (an unresolvable hand label never overwrites a real side): a loop
\* pass over a hand whose raw label is neither "Left" nor "Right" leaves
\* the Left and the Right entry as they are.
C28_UnknownHandKeepsSides ==
    [][(LoopPass /\ result.handedness[index] \notin {"Left", "Right"})
         => (hand_gestures_dict'["Left"] = hand_gestures_dict["Left"]
               /\ hand_gestures_dict'["Right"] = hand_gestures_dict["Right"])
      ]_vars

\* a hand of the current frame is processed in this step
HandStep == a_pc = "hand" /\ hands_left' # hands_left

\* C29 (pointing pose feeds the history): processing a hand that the pose
\* classifier reports as the pointing pose appends the fingertip landmark
\* to point_history, any other hand the sentinel. The pointing pose is
\* taken to be id 2, the id of the classifier that triggers no action.
C29_PointingFeedsHistory ==
    [][HandStep
         => LET point == point_history'[Len(point_history')]
            IN  IF hand_sign_id' = 2
                THEN point \in Landmarks
                ELSE point = Sentinel]_vars

\* C29 read for the other id of the classifier: were 5 the pointing pose,
\* its hands would append the fingertip landmark.
C29_PointingFeedsHistoryId5 ==
    [][(HandStep /\ hand_sign_id' = 5)
         => point_history'[Len(point_history')] \in Landmarks]_vars

\* C30 (one history entry per frame): the step in which a frame appends
\* an entry to point_history for a hand is the last step of that frame (no
\* other hand of the frame appends a second entry), and a frame without
\* hands appends exactly one entry.
C30_OneEntryPerFrame ==
    /\ [][HandStep => a_pc' = "frame"]_vars
    /\ [][(a_pc = "frame" /\ a_pc' = "frame"
             /\ point_history' # point_history)
            => Appended(point_history, point_history')]_vars

\* C31 (per-key debounce in the main loop of 01_gesture.py): the threads
\* one cycle starts are launched together, so two launches of a key's
\* action at least `delay` apart are launches of different cycles: no key
\* bound to a SportClient method is launched twice by one cycle
\* (01_gesture.py builds its GestureRecognizer with flip_results set).
C31_MainLoopDebounce ==
    flip_results
      => \A i, j \in DOMAIN started :
            (i # j /\ main_gesture_actions[started[i]] # "'None'")
               => started[i] # started[j]

\* C32 (actions never run in the main loop's context): the loop body of
\* app.py calls no SportClient method itself.
C32_NoActionInLoopContext == sport_call = "none"

====
